---------------------------- MODULE Spec2Model ----------------------------
(***************************************************************************)
(* Model of the graph-analytics core of MemeDiffusion (src/analyze.py):    *)
(* build_bipartite_graph, project_authors, compute_metrics,                *)
(* top_influencers_by_centrality and analyze_per_content.                  *)
(*                                                                         *)
(* A DataFrame is a sequence of rows; a row is a record of CSV cells.  A   *)
(* networkx Graph is a record [nodes, attr, w]: nodes is the sequence of   *)
(* node keys in insertion order (dict order), attr maps a node to its      *)
(* "bipartite" attribute, w maps an undirected edge, the set {u, v} of its *)
(* end points ({u} for a self-loop), to its "weight" attribute.  likeCount *)
(* values are Reddit scores, modelled as integers; Python floats that are  *)
(* ratios are modelled as exact fractions.                                 *)
(***************************************************************************)
EXTENDS Integers, Sequences, FiniteSets, TLC

VARIABLES df, nxStrict, pc, todo, ctype, subdf, i, G, P, topk, summary, influencers_rows

vars == <<df, nxStrict, pc, todo, ctype, subdf, i, G, P, topk, summary, influencers_rows>>

-----------------------------------------------------------------------------
(* Bounds of the model *)

MaxRows == 2

MaxNodes == 3

MaxTopk == 2

-----------------------------------------------------------------------------
(* Cells of the processed CSV files *)

\* A missing cell: pandas reads it as NaN, pd.isna is true of it.
NaN == "<NaN>"

\* The None that compute_metrics stores for an undefined metric.
None == [kind |-> "None"]

isna(x) == x = NaN

\* Identifiers: "x" and "y" are names that exist both as a Reddit user and as a
\* subreddit (nothing in the scraper keeps the two name spaces apart).
AuthorCells == {"a1", "x", "y", NaN}

SubredditCells == {"s1", "x", "y", NaN}

\* likeCount cells: missing, text that float() rejects, and a score.
LikeCells == {NaN, "abc", "2"}

\* content_type cells: missing, and two labels; "all" is a legal label.
ContentCells == {NaN, "all", "meme"}

Rows == [user_username : AuthorCells, subreddit : SubredditCells,
         likeCount : LikeCells, content_type : ContentCells]

\* float(cell) returns for a numeric cell and raises ValueError otherwise.
FloatOk(cell) == cell \in {"2", "3"}

\* float(cell): the number a numeric cell holds
Float(cell) == IF cell = "2" THEN 2 ELSE 3

-----------------------------------------------------------------------------
(* Sequences *)

Range(s) == {s[k] : k \in DOMAIN s}

Contains(s, e) == \E k \in DOMAIN s : s[k] = e

RECURSIVE SelectRows(_, _)
\* df[mask]: the rows of s, in order, whose index k satisfies mask[k].
SelectRows(s, mask) ==
    IF s = <<>> THEN <<>>
    ELSE LET n == Len(s)
             front == SelectRows(SubSeq(s, 1, n - 1), mask)
         IN  IF mask[n] THEN Append(front, s[n]) ELSE front

RECURSIVE SumOver(_, _)
\* sum of f[e] over the finite set S
SumOver(S, f) ==
    IF S = {} THEN 0
    ELSE LET e == CHOOSE e \in S : TRUE
         IN  f[e] + SumOver(S \ {e}, f)

-----------------------------------------------------------------------------
(* networkx.Graph *)

EmptyGraph == [nodes |-> <<>>, attr |-> <<>>, w |-> <<>>]

number_of_nodes(g) == Len(g.nodes)

number_of_edges(g) == Cardinality(DOMAIN g.w)

\* G.add_node(n, bipartite=label): a new key goes to the end of the node dict;
\* for an existing key the attribute is updated (overwritten) in place.
add_node(g, n, label) ==
    [g EXCEPT !.nodes = IF Contains(g.nodes, n) THEN @ ELSE Append(@, n),
              !.attr = [m \in (DOMAIN @) \cup {n} |->
                          IF m = n THEN label ELSE @[m]]]

has_edge(g, u, v) == {u, v} \in DOMAIN g.w

\* G.add_edge(u, v, weight=wt): adds missing end points (without attribute),
\* sets (overwrites) the weight of the undirected edge.
add_edge(g, u, v, wt) ==
    LET withU == IF Contains(g.nodes, u) THEN g.nodes ELSE Append(g.nodes, u)
        withV == IF Contains(withU, v) THEN withU ELSE Append(withU, v)
    IN  [g EXCEPT !.nodes = withV,
                  !.attr = [m \in (DOMAIN @) \cup {u, v} |->
                              IF m \in DOMAIN @ THEN @[m] ELSE "none"],
                  !.w = [e \in (DOMAIN @) \cup {{u, v}} |->
                              IF e = {u, v} THEN wt ELSE @[e]]]

\* G[u]: the neighbours of u (u itself when it has a self-loop)
Nbrs(g, u) == {v \in Range(g.nodes) : {u, v} \in DOMAIN g.w}

\* G.degree(): a self-loop counts twice
Degree(g, u) == Cardinality(Nbrs(g, u)) + (IF {u} \in DOMAIN g.w THEN 1 ELSE 0)

-----------------------------------------------------------------------------
(* build_bipartite_graph *)

\* The weight of one row: 1.0, or float(likeCount) when the cell is present
\* and float() accepts it.
RowWeight(row) ==
    IF ~isna(row.likeCount) /\ FloatOk(row.likeCount)
    THEN Float(row.likeCount)
    ELSE 1

\* G[author][subreddit]["weight"] += weight, or add_edge with the weight
UpsertEdge(g, author, subreddit, weight) ==
    IF has_edge(g, author, subreddit)
    THEN [g EXCEPT !.w[{author, subreddit}] = @ + weight]
    ELSE add_edge(g, author, subreddit, weight)

\* One iteration of the loop over df.iterrows().
AddRow(g, row) ==
    LET author == row.user_username
        subreddit == row.subreddit
    IN  IF isna(author) \/ isna(subreddit) THEN g
        ELSE UpsertEdge(add_node(add_node(g, author, "author"),
                                 subreddit, "subreddit"),
                        author, subreddit, RowWeight(row))

RECURSIVE build_bipartite_graph(_)
build_bipartite_graph(rows) ==
    IF rows = <<>> THEN EmptyGraph
    ELSE AddRow(build_bipartite_graph(SubSeq(rows, 1, Len(rows) - 1)),
                rows[Len(rows)])

-----------------------------------------------------------------------------
(* build_network.build_network *)

\* pd.read_csv gives the likeCount column the dtype float64 when every present
\* cell is numeric, and keeps the cells as text otherwise.
NumericColumn(rows) ==
    \A k \in DOMAIN rows : isna(rows[k].likeCount) \/ FloatOk(rows[k].likeCount)

\* row["likeCount"] of the k-th row: no float() and no default are applied
LikeCountOf(rows, k) ==
    LET cell == rows[k].likeCount
    IN  IF NumericColumn(rows) /\ ~isna(cell) THEN Float(cell) ELSE cell

\* One iteration of the loop over df.iterrows(): the node attribute is "type",
\* kept in the attr field; add_edge sets the weight, also of an existing edge.
AddRowNetwork(g, rows, k) ==
    LET author == rows[k].user_username
        subreddit == rows[k].subreddit
    IN  IF ~isna(author) /\ ~isna(subreddit)
        THEN add_edge(add_node(add_node(g, author, "author"),
                               subreddit, "subreddit"),
                      author, subreddit, LikeCountOf(rows, k))
        ELSE g

RECURSIVE BuildNetworkUpTo(_, _)
\* The graph after the first k rows
BuildNetworkUpTo(rows, k) ==
    IF k = 0 THEN EmptyGraph
    ELSE AddRowNetwork(BuildNetworkUpTo(rows, k - 1), rows, k)

build_network(rows) == BuildNetworkUpTo(rows, Len(rows))

-----------------------------------------------------------------------------
(* project_authors *)

\* [n for n, d in G.nodes(data=True) if d.get("bipartite") == "author"]
AuthorNodes(g) ==
    SelectRows(g.nodes, [k \in DOMAIN g.nodes |-> g.attr[g.nodes[k]] = "author"])

\* nbrs2 = {n for nbr in unbrs for n in B[nbr]} - {u}
Nbrs2(B, u) == UNION {Nbrs(B, nbr) : nbr \in Nbrs(B, u)} \ {u}

\* weight = len(unbrs & vnbrs)
CommonCount(B, u, v) == Cardinality(Nbrs(B, u) \cap Nbrs(B, v))

\* The nodes that G.add_edge(u, v) adds to the projection because v is not one of
\* `nodes` (possible only when B is not bipartite with respect to `nodes`).
ExtraNodes(B, nodes) == UNION {Nbrs2(B, u) : u \in Range(nodes)} \ Range(nodes)

\* The index of the first u whose nbrs2 holds v
FirstU(B, nodes, v) ==
    CHOOSE k \in DOMAIN nodes :
        /\ v \in Nbrs2(B, nodes[k])
        /\ \A j \in 1..(k - 1) : v \notin Nbrs2(B, nodes[j])

\* The orders in which the extra nodes can enter the projection: "for u in nodes"
\* runs in list order, "for v in nbrs2" in the iteration order of a set of
\* strings, which the build does not fix.
ExtraOrders(B, nodes) ==
    LET X == ExtraNodes(B, nodes)
    IN  {s \in [1..Cardinality(X) -> X] :
            /\ \A a, b \in DOMAIN s : a # b => s[a] # s[b]
            /\ \A a, b \in DOMAIN s :
                  a < b => FirstU(B, nodes, s[a]) <= FirstU(B, nodes, s[b])}

\* Current networkx releases raise NetworkXAlgorithmError when
\* len(B) - len(nodes) < 1; older releases have no such test.  strict tells
\* which kind is installed.
ProjectionRaises(B, nodes, strict) == strict /\ Len(B.nodes) - Len(nodes) < 1

\* nx.bipartite.weighted_projected_graph(B, nodes), the extra nodes entering in
\* the order ext.
weighted_projected_graph(B, nodes, ext) ==
    LET E == {{u, v} : u \in Range(nodes), v \in Range(B.nodes)}
        edges == {e \in E : \E u \in Range(nodes) :
                                \E v \in Nbrs2(B, u) : e = {u, v}}
        wt(e) == LET u == CHOOSE u \in e : TRUE
                     v == CHOOSE v \in e : v # u
                 IN  CommonCount(B, u, v)
    IN  [nodes |-> nodes \o ext,
         attr |-> [n \in Range(nodes) \cup Range(ext) |->
                     IF n \in Range(nodes) THEN B.attr[n] ELSE "none"],
         w |-> [e \in edges |-> wt(e)]]

\* project_authors(G) for one iteration order of the sets
project_authors(g, ext) == weighted_projected_graph(g, AuthorNodes(g), ext)

-----------------------------------------------------------------------------
(* Numbers: a Python float that is a ratio of integers is kept as the reduced *)
(* fraction n/d, d > 0.                                                       *)

RECURSIVE GCD(_, _)
GCD(a, b) == IF b = 0 THEN a ELSE GCD(b, a % b)

Abs(a) == IF a < 0 THEN -a ELSE a

Q(n, d) ==
    LET g == GCD(Abs(n), d)
    IN  [kind |-> "num", n |-> n \div g, d |-> d \div g]

Num(n) == Q(n, 1)

QAdd(p, q) == Q(p.n * q.d + q.n * p.d, p.d * q.d)

QLess(p, q) == p.n * q.d < q.n * p.d

RECURSIVE QSum(_)
\* sum() of a list of numbers
QSum(s) == IF s = <<>> THEN Num(0)
           ELSE QAdd(QSum(SubSeq(s, 1, Len(s) - 1)), s[Len(s)])

QDiv(p, k) == Q(p.n, p.d * k)

-----------------------------------------------------------------------------
(* networkx algorithms used by compute_metrics *)

\* nx.density(G): 0 when there is no edge or at most one node, else 2m/(n(n-1))
density(g) ==
    LET n == number_of_nodes(g)
        m == number_of_edges(g)
    IN  IF m = 0 \/ n <= 1 THEN Num(0) ELSE Q(2 * m, n * (n - 1))

\* nx.clustering(G, v): triangles through v over the pairs of its neighbours
\* (self-loops ignored), 0 when there is no triangle.
clustering(g, v) ==
    LET vs == Nbrs(g, v) \ {v}
        d == Cardinality(vs)
        t == Cardinality({pr \in vs \X vs :
                             pr[1] # pr[2] /\ {pr[1], pr[2]} \in DOMAIN g.w})
    IN  IF t = 0 THEN Num(0) ELSE Q(t, d * (d - 1))

\* nx.average_clustering(G): sum(c) / len(c)
average_clustering(g) ==
    QDiv(QSum([k \in DOMAIN g.nodes |-> clustering(g, g.nodes[k])]),
         number_of_nodes(g))

RECURSIVE Ball(_, _, _)
\* The nodes at most k hops from a node of S (breadth-first search levels)
Ball(g, S, k) ==
    IF k = 0 THEN S
    ELSE UNION {Nbrs(g, u) \cup {u} : u \in Ball(g, S, k - 1)}

\* The connected component of u
Component(g, u) == Ball(g, {u}, number_of_nodes(g))

RECURSIVE ComponentsFrom(_, _, _)
\* The loop of nx.connected_components from the k-th node on, seen being the
\* components already yielded
ComponentsFrom(g, k, seen) ==
    IF k > Len(g.nodes) THEN seen
    ELSE ComponentsFrom(g, k + 1,
            IF \E c \in Range(seen) : g.nodes[k] \in c THEN seen
            ELSE Append(seen, Component(g, g.nodes[k])))

\* list(nx.connected_components(G)): one set per component, in the order in
\* which iterating the nodes meets them.
connected_components(g) == ComponentsFrom(g, 1, <<>>)

\* max(len(c) for c in comps) if comps else 0
LargestSize(comps) ==
    IF comps = <<>> THEN 0
    ELSE CHOOSE m \in {Cardinality(c) : c \in Range(comps)} :
            \A c \in Range(comps) : Cardinality(c) <= m

\* max(comps, key=len): the first component of maximal size
MaxComponent(comps) ==
    comps[CHOOSE k \in DOMAIN comps :
            /\ Cardinality(comps[k]) = LargestSize(comps)
            /\ \A j \in 1..(k - 1) : Cardinality(comps[j]) < LargestSize(comps)]

\* UG.subgraph(c)
subgraph(g, c) ==
    [nodes |-> SelectRows(g.nodes, [k \in DOMAIN g.nodes |-> g.nodes[k] \in c]),
     attr |-> [n \in c |-> g.attr[n]],
     w |-> [e \in {e \in DOMAIN g.w : e \subseteq c} |-> g.w[e]]]

\* The hop distance from u to v in a connected graph
ShortestPathLength(g, u, v) ==
    CHOOSE k \in 0..number_of_nodes(g) :
        /\ v \in Ball(g, {u}, k)
        /\ k > 0 => v \notin Ball(g, {u}, k - 1)

\* average_shortest_path_length averaging over n*n pairs instead of n(n-1)
average_shortest_path_length_OverNN(g) ==
    LET n == number_of_nodes(g)
        pairs == {pr \in Range(g.nodes) \X Range(g.nodes) : pr[1] # pr[2]}
        dist == [pr \in pairs |-> ShortestPathLength(g, pr[1], pr[2])]
    IN  Q(SumOver(pairs, dist), n * n)

\* nx.average_shortest_path_length(G) of a connected graph of n >= 2 nodes: the
\* sum of the distances of all ordered pairs over n(n-1)
average_shortest_path_length(g) ==
    LET n == number_of_nodes(g)
        pairs == {pr \in Range(g.nodes) \X Range(g.nodes) : pr[1] # pr[2]}
        dist == [pr \in pairs |-> ShortestPathLength(g, pr[1], pr[2])]
    IN  Q(SumOver(pairs, dist), n * (n - 1))

\* degree_centrality normalising by N instead of N-1
degree_centrality_OverN(g) ==
    LET n == number_of_nodes(g)
    IN  IF n <= 1 THEN [v \in Range(g.nodes) |-> Num(1)]
        ELSE [v \in Range(g.nodes) |-> Q(Degree(g, v), n)]

\* nx.degree_centrality(G): 1 for every node of a graph of at most one node,
\* else degree/(N-1)
degree_centrality(g) ==
    LET n == number_of_nodes(g)
    IN  IF n <= 1 THEN [v \in Range(g.nodes) |-> Num(1)]
        ELSE [v \in Range(g.nodes) |-> Q(Degree(g, v), n - 1)]

\* max() of a non-empty collection of numbers
QMax(S) == CHOOSE m \in S : \A q \in S : ~QLess(m, q)

-----------------------------------------------------------------------------
(* compute_metrics *)

NineFields == {"n_nodes", "n_edges", "avg_degree", "density", "avg_clustering",
               "n_components", "largest_component", "avg_shortest_path",
               "max_degree_centrality"}

\* The early return for the graph without nodes: metrics.update() of six keys
\* after n_nodes and n_edges.
EmptyGraphMetrics(g) ==
    [f \in NineFields \ {"max_degree_centrality"} |->
        CASE f = "n_nodes" -> Num(number_of_nodes(g))
          [] f = "n_edges" -> Num(number_of_edges(g))
          [] f = "avg_degree" -> Num(0)
          [] f = "density" -> Num(0)
          [] f = "avg_clustering" -> None
          [] f = "avg_shortest_path" -> None
          [] f = "n_components" -> Num(0)
          [] f = "largest_component" -> Num(0)]

\* metrics["avg_shortest_path"]
AvgShortestPath(g) ==
    LET comps == connected_components(g)
    IN  IF LargestSize(comps) > 1
        THEN average_shortest_path_length(subgraph(g, MaxComponent(comps)))
        ELSE None

\* metrics["max_degree_centrality"]
MaxDegreeCentrality(g) ==
    LET dc == degree_centrality(g)
    IN  IF DOMAIN dc # {} THEN QMax(Range(dc)) ELSE Num(0)

compute_metrics(g) ==
    IF number_of_nodes(g) = 0 THEN EmptyGraphMetrics(g)
    ELSE [f \in NineFields |->
            CASE f = "n_nodes" -> Num(number_of_nodes(g))
              [] f = "n_edges" -> Num(number_of_edges(g))
              [] f = "avg_degree" ->
                    QDiv(QSum([k \in DOMAIN g.nodes |-> Num(Degree(g, g.nodes[k]))]),
                         number_of_nodes(g))
              [] f = "density" -> density(g)
              [] f = "avg_clustering" -> average_clustering(g)
              [] f = "n_components" -> Num(Len(connected_components(g)))
              [] f = "largest_component" -> Num(LargestSize(connected_components(g)))
              [] f = "avg_shortest_path" -> AvgShortestPath(g)
              [] f = "max_degree_centrality" -> MaxDegreeCentrality(g)]

-----------------------------------------------------------------------------
(* top_influencers_by_centrality *)

Min(a, b) == IF a < b THEN a ELSE b

Max(a, b) == IF a < b THEN b ELSE a

\* Slice cutting one element too late: s[:k + 1]
SliceOffByOne(s, k) == SubSeq(s, 1, Min(k + 1, Len(s)))

\* s[:k], also for a negative k
Slice(s, k) ==
    IF k >= 0 THEN SubSeq(s, 1, Min(k, Len(s)))
    ELSE SubSeq(s, 1, Max(0, Len(s) + k))

\* s without its k-th element
RemoveAt(s, k) == SubSeq(s, 1, k - 1) \o SubSeq(s, k + 1, Len(s))

\* FirstMax of a sort that is not stable: the latest element of greatest key
LastMax(s, key) ==
    CHOOSE k \in DOMAIN s :
        /\ \A j \in DOMAIN s : ~QLess(key[s[k]], key[s[j]])
        /\ \A j \in (k + 1)..Len(s) : QLess(key[s[j]], key[s[k]])

\* The index sorted(..., reverse=True) puts first: the sort is stable, so among
\* the elements of greatest key it is the earliest one.
FirstMax(s, key) ==
    CHOOSE k \in DOMAIN s :
        /\ \A j \in DOMAIN s : ~QLess(key[s[k]], key[s[j]])
        /\ \A j \in 1..(k - 1) : QLess(key[s[j]], key[s[k]])

RECURSIVE SortedDesc(_, _)
\* sorted(s, key=lambda x: key[x], reverse=True)
SortedDesc(s, key) ==
    IF s = <<>> THEN <<>>
    ELSE LET k == FirstMax(s, key)
         IN  <<s[k]>> \o SortedDesc(RemoveAt(s, k), key)

\* dict(P.degree(weight="weight")): the weights of the incident edges, a
\* self-loop twice
WeightedDegree(g, n) ==
    SumOver({e \in DOMAIN g.w : n \in e}, g.w)
      + (IF {n} \in DOMAIN g.w THEN g.w[{n}] ELSE 0)

top_influencers_by_centrality(g, k) ==
    IF number_of_nodes(g) = 0 THEN <<>>
    ELSE LET deg_cent == degree_centrality(g)
             top == Slice(SortedDesc(g.nodes, deg_cent), k)
         IN  [r \in DOMAIN top |->
                [author |-> top[r],
                 degree_centrality |-> deg_cent[top[r]],
                 weighted_degree |-> Num(WeightedDegree(g, top[r]))]]

-----------------------------------------------------------------------------
(* analyze_per_content *)

\* analyze_per_content calls top_influencers_by_centrality with topk=10
Topk == 10

\* The category labels in lexicographic order, the order sorted() gives strings
CategoryOrder == <<"all", "meme", "unknown">>

\* df["content_type"].fillna("unknown")
FillNa(cell) == IF isna(cell) THEN "unknown" ELSE cell

\* sorted(df["content_type"].fillna("unknown").unique()); the column is present
\* (main adds it when the files have none)
SortedCategories(d) ==
    LET present == {FillNa(d[k].content_type) : k \in DOMAIN d}
    IN  SelectRows(CategoryOrder,
                   [k \in DOMAIN CategoryOrder |-> CategoryOrder[k] \in present])

\* df[df["content_type"] == c]: the comparison is with the column as read, and
\* NaN equals no label.
SubFrame(d, c) ==
    SelectRows(d, [k \in DOMAIN d |-> ~isna(d[k].content_type)
                                        /\ d[k].content_type = c])

\* summary[key] = val on a dict
Put(dict, key, val) ==
    [k \in (DOMAIN dict) \cup {key} |-> IF k = key THEN val ELSE dict[k]]

\* {"category": c, **inf} for every inf of the list
Tagged(c, infs) ==
    [r \in DOMAIN infs |->
        [category |-> c, author |-> infs[r].author,
         degree_centrality |-> infs[r].degree_centrality,
         weighted_degree |-> infs[r].weighted_degree]]

\* The state at the first statement of analyze_per_content(df): the overall pass
\* is about to build G_all from df.  todo holds the value of the loop's iterable,
\* which depends on df alone.
Init ==
    /\ \E n \in 0..MaxRows : df \in [1..n -> Rows]
    /\ nxStrict \in BOOLEAN
    /\ pc = "build"
    /\ todo = SortedCategories(df)
    /\ ctype = "all"
    /\ subdf = df
    /\ i = 1
    /\ G = EmptyGraph
    /\ P = EmptyGraph
    /\ topk = Topk
    /\ summary = <<>>
    /\ influencers_rows = <<>>

\* build_bipartite_graph: one iteration of "for _, row in df.iterrows()"
BuildRow ==
    /\ pc = "build"
    /\ i <= Len(subdf)
    /\ G' = AddRow(G, subdf[i])
    /\ i' = i + 1
    /\ UNCHANGED <<df, nxStrict, pc, todo, ctype, subdf, P, topk, summary,
                   influencers_rows>>

\* build_bipartite_graph: "return G" after the last row
BuildReturn ==
    /\ pc = "build"
    /\ i > Len(subdf)
    /\ pc' = "project"
    /\ UNCHANGED <<df, nxStrict, todo, ctype, subdf, i, G, P, topk, summary,
                   influencers_rows>>

\* project_authors(G): returns the projection, or the exception of
\* weighted_projected_graph leaves analyze_per_content.
Project ==
    /\ pc = "project"
    /\ IF ProjectionRaises(G, AuthorNodes(G), nxStrict)
       THEN /\ pc' = "raised"
            /\ P' = P
       ELSE /\ \E ext \in ExtraOrders(G, AuthorNodes(G)) :
                  P' = project_authors(G, ext)
            /\ pc' = "metrics"
    /\ UNCHANGED <<df, nxStrict, todo, ctype, subdf, i, G, topk, summary,
                   influencers_rows>>

\* summary[ctype] = compute_metrics(P)
Metrics ==
    /\ pc = "metrics"
    /\ summary' = Put(summary, ctype, compute_metrics(P))
    /\ pc' = "rank"
    /\ UNCHANGED <<df, nxStrict, todo, ctype, subdf, i, G, P, topk,
                   influencers_rows>>

\* the loop appending the rows of top_influencers_by_centrality(P, topk)
Rank ==
    /\ pc = "rank"
    /\ influencers_rows' =
          influencers_rows \o Tagged(ctype, top_influencers_by_centrality(P, topk))
    /\ pc' = "next"
    /\ UNCHANGED <<df, nxStrict, todo, ctype, subdf, i, G, P, topk, summary>>

\* the next iteration of "for ctype in sorted(...)": subdf is selected and a
\* fresh graph is built from it
NextCategory ==
    /\ pc = "next"
    /\ todo # <<>>
    /\ ctype' = Head(todo)
    /\ todo' = Tail(todo)
    /\ subdf' = SubFrame(df, Head(todo))
    /\ i' = 1
    /\ G' = EmptyGraph
    /\ pc' = "build"
    /\ UNCHANGED <<df, nxStrict, P, topk, summary, influencers_rows>>

\* "return summary, influencers_rows"
Return ==
    /\ pc = "next"
    /\ todo = <<>>
    /\ pc' = "done"
    /\ UNCHANGED <<df, nxStrict, todo, ctype, subdf, i, G, P, topk, summary,
                   influencers_rows>>

Next ==
    \/ BuildRow
    \/ BuildReturn
    \/ Project
    \/ Metrics
    \/ Rank
    \/ NextCategory
    \/ Return

Spec == Init /\ [][Next]_vars

-----------------------------------------------------------------------------
(* compute_metrics and top_influencers_by_centrality on any graph *)

NodePool == {"a", "b", "c", "d"}

EdgeWeights == {1, 2}

\* The sequences of n distinct node keys
NodeOrders(n) ==
    {s \in [1..n -> NodePool] : \A a, b \in 1..n : a # b => s[a] # s[b]}

\* The possible edges between distinct nodes of ns
NodePairs(ns) == {e \in SUBSET Range(ns) : Cardinality(e) = 2}

\* The simple undirected graph with the nodes inserted in the order ns and the
\* edge weights wf
MakeGraph(ns, wf) ==
    [nodes |-> ns, attr |-> [v \in Range(ns) |-> "author"], w |-> wf]

\* The state at a call of compute_metrics(P) with any simple undirected weighted
\* graph of at most MaxNodes nodes, in every insertion order of the nodes
InitGraph ==
    /\ \E k \in 0..MaxNodes : \E ns \in NodeOrders(k) :
          \E es \in SUBSET NodePairs(ns) : \E wf \in [es -> EdgeWeights] :
              P = MakeGraph(ns, wf)
    /\ topk = Topk
    /\ df = <<>>
    /\ nxStrict = FALSE
    /\ pc = "metrics"
    /\ todo = <<>>
    /\ ctype = "all"
    /\ subdf = <<>>
    /\ i = 1
    /\ G = EmptyGraph
    /\ summary = <<>>
    /\ influencers_rows = <<>>

\* top_influencers_by_centrality(P, topk) called with any topk >= 0
RankAny ==
    /\ pc = "rank"
    /\ \E k \in 0..MaxTopk :
          /\ topk' = k
          /\ influencers_rows' =
                influencers_rows \o Tagged(ctype, top_influencers_by_centrality(P, k))
    /\ pc' = "next"
    /\ UNCHANGED <<df, nxStrict, todo, ctype, subdf, i, G, P, summary>>

NextGraph ==
    \/ Metrics
    \/ RankAny
    \/ Return

SpecGraph == InitGraph /\ [][NextGraph]_vars

-----------------------------------------------------------------------------
(* Claims about build_bipartite_graph and project_authors (specification Spec) *)

\* A row that has both author and subreddit
ValidRow(row) == ~isna(row.user_username) /\ ~isna(row.subreddit)

\* The weight a row counts for: its likeCount, 1 when missing or not a number
StatedWeight(row) == IF row.likeCount = "2" THEN 2
                     ELSE IF row.likeCount = "3" THEN 3 ELSE 1

\* The (author, subreddit) pairs of the valid rows of d
PairsOf(d) == {<<d[k].user_username, d[k].subreddit>> :
                  k \in {j \in DOMAIN d : ValidRow(d[j])}}

\* The sum of the weights of the rows of d with author a and subreddit s
PairSum(d, a, s) ==
    LET ks == {k \in DOMAIN d : d[k].user_username = a /\ d[k].subreddit = s}
    IN  SumOver(ks, [k \in ks |-> StatedWeight(d[k])])

\* The rows of d in the order given by the permutation f of its indices
Permuted(d, f) == [k \in DOMAIN d |-> d[f[k]]]

IndexPermutations(n) == {f \in [1..n -> 1..n] : \A a, b \in 1..n : a # b => f[a] # f[b]}

\* build_bipartite_graph has returned G for the rows of subdf
Built == pc = "project"

\* C1: when build_bipartite_graph returns, the graph has for each (author,
\* subreddit) pair of the valid rows an edge whose weight is the sum of the
\* weights of the rows of that pair, it has no other edge, and every permutation
\* of the rows gives the same edges with the same weights.
C1_PairSumsAnyOrder ==
    Built =>
      /\ \A pr \in PairsOf(subdf) :
            /\ has_edge(G, pr[1], pr[2])
            /\ G.w[{pr[1], pr[2]}] = PairSum(subdf, pr[1], pr[2])
      /\ DOMAIN G.w = {{pr[1], pr[2]} : pr \in PairsOf(subdf)}
      /\ \A f \in IndexPermutations(Len(subdf)) :
            build_bipartite_graph(Permuted(subdf, f)).w = G.w

\* The authors of the valid rows of d
AuthorsOf(d) == {pr[1] : pr \in PairsOf(d)}

\* The subreddits of the valid rows of d
SubredditsOf(d) == {pr[2] : pr \in PairsOf(d)}

\* The subreddits the author a posted in
SubredditsOfAuthor(d, a) == {pr[2] : pr \in {q \in PairsOf(d) : q[1] = a}}

\* project_authors has returned P for the graph of the rows of subdf
Projected == pc = "metrics"

\* C2: project_authors returns (it does not raise), and the graph it returns has
\* no self-loop, joins two distinct authors exactly when they posted in a common
\* subreddit, and gives that edge the number of their common subreddits as weight.
C2_CoOccurrenceProjection ==
    /\ pc # "raised"
    /\ Projected =>
          /\ \A e \in DOMAIN P.w : Cardinality(e) = 2
          /\ \A a, b \in AuthorsOf(subdf) :
                a # b =>
                  LET shared == SubredditsOfAuthor(subdf, a)
                                  \cap SubredditsOfAuthor(subdf, b)
                  IN  /\ ({a, b} \in DOMAIN P.w) <=> (shared # {})
                      /\ shared # {} => P.w[{a, b}] = Cardinality(shared)
          /\ \A e \in DOMAIN P.w : e \subseteq AuthorsOf(subdf)

\* C10: the nodes of the projection are exactly the authors of the valid rows;
\* no subreddit that is not such an author is among them.
C10_ProjectionNodesAreAuthors ==
    Projected => Range(P.nodes) = AuthorsOf(subdf)

\* build_bipartite_graph is in its loop: G is the graph of the first i - 1 rows
\* of subdf
InBuildLoop == pc = "build"

\* Every node has one of the two partition labels, every edge joins a node
\* labelled author to a node labelled subreddit (so no self-loop and no edge
\* inside a partition).
BipartiteLabelled(g) ==
    /\ \A n \in Range(g.nodes) : g.attr[n] \in {"author", "subreddit"}
    /\ \A e \in DOMAIN g.w :
          /\ Cardinality(e) = 2
          /\ {g.attr[n] : n \in e} = {"author", "subreddit"}

\* One more row of the same graph leaves the label of every node it had.
LabelsKept ==
    (InBuildLoop /\ pc' = "build" /\ i' = i + 1) =>
        \A n \in Range(G.nodes) : G'.attr[n] = G.attr[n]

\* C11: after every prefix of the rows processed by build_bipartite_graph the
\* graph is bipartite with disjoint partitions: every node carries exactly one
\* partition label, which no later row changes, every edge joins an author node
\* to a subreddit node, and there is no self-loop and no edge inside a partition.
C11_BipartiteAfterEveryPrefix ==
    /\ [](InBuildLoop => BipartiteLabelled(G))
    /\ [][LabelsKept]_vars

\* Every row of d has a likeCount that is present and numeric
AllLikeCountsNumeric(d) ==
    \A k \in DOMAIN d : ~isna(d[k].likeCount) /\ FloatOk(d[k].likeCount)

\* C12: for rows whose likeCount is present and numeric, build_network gives the
\* edge of each (author, subreddit) pair the sum of the likeCount values of all
\* the rows of that pair, and its graph has the edges and the weights of the
\* graph build_bipartite_graph returns for the same rows.
C12_BuildNetworkSumsLikeCounts ==
    (Built /\ AllLikeCountsNumeric(subdf)) =>
        LET N == build_network(subdf)
        IN  /\ \A pr \in PairsOf(subdf) :
                  /\ has_edge(N, pr[1], pr[2])
                  /\ N.w[{pr[1], pr[2]}] = PairSum(subdf, pr[1], pr[2])
            /\ N.w = G.w

-----------------------------------------------------------------------------
(* Claims about analyze_per_content (specification Spec) *)

\* The rows of category c, a missing content_type counting as "unknown"
RowsOfCategory(d, c) ==
    SelectRows(d, [k \in DOMAIN d |-> FillNa(d[k].content_type) = c])

\* The loop over the categories has started (the overall pass is over)
InCategoryPass == Len(todo) < Len(SortedCategories(df))

\* The metrics of the projection of the rows d (for these few rows they do not
\* depend on the order in which nodes enter the projection)
MetricsOfRows(d) ==
    LET g == build_bipartite_graph(d)
        ext == CHOOSE ext \in ExtraOrders(g, AuthorNodes(g)) : TRUE
    IN  compute_metrics(project_authors(g, ext))

\* C3: the subset analysed for a category is exactly the rows of that category, a
\* row without content_type being a row of "unknown"; every category of the data
\* has its summary entry, computed from its rows.
C3_PartitionByCategory ==
    /\ (pc = "build" /\ InCategoryPass) => subdf = RowsOfCategory(df, ctype)
    /\ pc = "done" =>
          \A c \in Range(SortedCategories(df)) :
              /\ c \in DOMAIN summary
              /\ summary[c] = MetricsOfRows(RowsOfCategory(df, c))

\* C4: the summary returned has one entry per category of the data and one more,
\* "all", which holds the metrics of the projection of all rows.
C4_AllEntryIsOverall ==
    pc = "done" =>
      /\ Cardinality(DOMAIN summary) = Len(SortedCategories(df)) + 1
      /\ "all" \in DOMAIN summary
      /\ summary["all"] = MetricsOfRows(df)

-----------------------------------------------------------------------------
(* Claims about top_influencers_by_centrality (specification SpecGraph) *)

\* The number of edges at v, for a graph without self-loops
EdgeCount(g, v) == Cardinality({e \in DOMAIN g.w : v \in e})

\* The position of the node e in the sequence s
IndexOf(s, e) == CHOOSE k \in DOMAIN s : s[k] = e

\* The node identifiers in ascending order
NameOrder == <<"a", "b", "c", "d">>

\* top_influencers_by_centrality(P, topk) has just returned the list
\* influencers_rows
Ranked == pc = "next"

RankedAuthors == {influencers_rows[r].author : r \in DOMAIN influencers_rows}

\* C5: the list has min(topk, number of nodes) entries, each for a distinct node
\* of P, in order of non-increasing degree centrality; no node left out has a
\* higher degree centrality than a listed one; the empty graph gives the empty list.
C5_TopKByCentrality ==
    Ranked =>
      LET rows == influencers_rows
          N == number_of_nodes(P)
      IN  /\ Len(rows) = Min(topk, N)
          /\ RankedAuthors \subseteq Range(P.nodes)
          /\ \A r, t \in DOMAIN rows : r # t => rows[r].author # rows[t].author
          /\ \A r, t \in DOMAIN rows :
                r < t => /\ ~QLess(rows[r].degree_centrality, rows[t].degree_centrality)
                         /\ EdgeCount(P, rows[r].author) >= EdgeCount(P, rows[t].author)
          /\ \A r \in DOMAIN rows :
                N > 1 => rows[r].degree_centrality = Q(EdgeCount(P, rows[r].author), N - 1)
          /\ \A u \in RankedAuthors : \A v \in Range(P.nodes) \ RankedAuthors :
                EdgeCount(P, v) <= EdgeCount(P, u)
          /\ N = 0 => rows = <<>>

\* C5 witness: topk cuts the list short of a graph whose first node is not its
\* most central one, and a node of lower centrality is left out.
C5_Witness ==
    /\ Ranked
    /\ topk = 2
    /\ number_of_nodes(P) = 3
    /\ Len(influencers_rows) = 2
    /\ influencers_rows[1].author # P.nodes[1]
    /\ \E v \in Range(P.nodes) \ RankedAuthors :
          EdgeCount(P, v) < EdgeCount(P, influencers_rows[2].author)

\* C6 as stated: of two nodes of equal degree centrality the one with the smaller
\* identifier comes first in the list, and when a tie straddles the cut-off the
\* smaller identifiers are the ones listed.
C6_TiesByIdentifier ==
    Ranked =>
      LET rows == influencers_rows
      IN  /\ \A r, t \in DOMAIN rows :
                (r < t /\ rows[r].degree_centrality = rows[t].degree_centrality)
                  => IndexOf(NameOrder, rows[r].author) < IndexOf(NameOrder, rows[t].author)
          /\ \A u \in RankedAuthors : \A v \in Range(P.nodes) \ RankedAuthors :
                EdgeCount(P, u) = EdgeCount(P, v)
                  => IndexOf(NameOrder, u) < IndexOf(NameOrder, v)

\* C6 amended: of two nodes of equal degree centrality the one inserted earlier
\* into P comes first in the list, and when a tie straddles the cut-off the nodes
\* inserted earlier are the ones listed.
C6_TiesByInsertionOrder ==
    Ranked =>
      LET rows == influencers_rows
      IN  /\ \A r, t \in DOMAIN rows :
                (r < t /\ rows[r].degree_centrality = rows[t].degree_centrality)
                  => IndexOf(P.nodes, rows[r].author) < IndexOf(P.nodes, rows[t].author)
          /\ \A u \in RankedAuthors : \A v \in Range(P.nodes) \ RankedAuthors :
                EdgeCount(P, u) = EdgeCount(P, v)
                  => IndexOf(P.nodes, u) < IndexOf(P.nodes, v)

\* C6 witness: two listed nodes tie, a tie straddles the cut-off, and in both the
\* node inserted earlier has the greater identifier.
C6_Witness ==
    /\ Ranked
    /\ \E r, t \in DOMAIN influencers_rows :
          /\ r < t
          /\ influencers_rows[r].degree_centrality = influencers_rows[t].degree_centrality
          /\ IndexOf(NameOrder, influencers_rows[t].author)
                < IndexOf(NameOrder, influencers_rows[r].author)
    /\ \E u \in RankedAuthors : \E v \in Range(P.nodes) \ RankedAuthors :
          /\ EdgeCount(P, u) = EdgeCount(P, v)
          /\ IndexOf(NameOrder, v) < IndexOf(NameOrder, u)

-----------------------------------------------------------------------------
(* Claims about compute_metrics (specification SpecGraph) *)

\* A field the record does not have
Absent == [kind |-> "absent"]

FieldOf(m, f) == IF f \in DOMAIN m THEN m[f] ELSE Absent

\* compute_metrics(P) has just returned and is stored in summary[ctype]
MetricsDone == pc = "rank"

\* C7: compute_metrics returns a record of the same nine fields for every graph;
\* for the empty graph the four counts are 0 and avg_clustering,
\* avg_shortest_path and max_degree_centrality are null.
C7_NineFieldsAlways ==
    MetricsDone =>
      LET m == summary[ctype]
      IN  /\ DOMAIN m = NineFields
          /\ number_of_nodes(P) = 0 =>
                /\ \A f \in {"n_nodes", "n_edges", "n_components", "largest_component"} :
                      FieldOf(m, f) = Num(0)
                /\ \A f \in {"avg_clustering", "avg_shortest_path",
                             "max_degree_centrality"} :
                      FieldOf(m, f) = None

\* The greatest degree/(N-1) over the nodes of a graph of N > 1 nodes
GreatestCentrality(g) ==
    LET N == number_of_nodes(g)
        S == {Q(EdgeCount(g, v), N - 1) : v \in Range(g.nodes)}
    IN  CHOOSE m \in S : \A q \in S : q.n * m.d <= m.n * q.d

\* C8 as stated: max_degree_centrality is the greatest degree/(N-1) when N > 1
\* and null (or not set) or 0 when N <= 1.
C8_MaxCentralityNullOrZero ==
    MetricsDone =>
      LET m == summary[ctype]
          N == number_of_nodes(P)
      IN  /\ N > 1 => FieldOf(m, "max_degree_centrality") = GreatestCentrality(P)
          /\ N <= 1 => FieldOf(m, "max_degree_centrality") \in {None, Absent, Num(0)}

\* C8 amended: max_degree_centrality is the greatest degree/(N-1) when N > 1, it
\* is 1 when N = 1, and the record has no such field when N = 0.
C8_MaxCentralityOneForSingleNode ==
    MetricsDone =>
      LET m == summary[ctype]
          N == number_of_nodes(P)
      IN  /\ N > 1 => FieldOf(m, "max_degree_centrality") = GreatestCentrality(P)
          /\ N = 1 => FieldOf(m, "max_degree_centrality") = Num(1)
          /\ N = 0 => FieldOf(m, "max_degree_centrality") = Absent

\* C8 witness: the metrics of a graph of a single isolated node
C8_Witness ==
    /\ MetricsDone
    /\ number_of_nodes(P) = 1
    /\ summary[ctype]["max_degree_centrality"] = Num(1)

\* The edges of g as a set of unordered pairs
EdgeSet(g) == DOMAIN g.w

RECURSIVE WalkLength(_, _, _, _)
\* The least number of edges of a walk of at most k edges from u to v; more than
\* k when there is none
WalkLength(g, u, v, k) ==
    IF u = v THEN 0
    ELSE IF k = 0 THEN 1
    ELSE LET via == {1 + WalkLength(g, x, v, k - 1) :
                        x \in {y \in Range(g.nodes) : y # u /\ {u, y} \in EdgeSet(g)}}
         IN  IF via = {} THEN k + 1
             ELSE Min(k + 1, CHOOSE z \in via : \A y \in via : z <= y)

\* The least number of edges of a walk from u to v; -1 when there is none
HopDistance(g, u, v) ==
    LET z == WalkLength(g, u, v, number_of_nodes(g))
    IN  IF z > number_of_nodes(g) THEN -1 ELSE z

\* The connected components: the classes of "joined by a walk"
ComponentSets(g) ==
    {{v \in Range(g.nodes) : HopDistance(g, u, v) >= 0} : u \in Range(g.nodes)}

\* The mean hop distance over the ordered pairs of distinct nodes of C
MeanDistance(g, C) ==
    LET pairs == {pr \in C \X C : pr[1] # pr[2]}
    IN  Q(SumOver(pairs, [pr \in pairs |-> HopDistance(g, pr[1], pr[2])]),
          Cardinality(C) * (Cardinality(C) - 1))

\* C9: n_components and largest_component are the number of connected components
\* and the size of the largest; avg_shortest_path is null exactly when the
\* largest component has at most one node, and otherwise is the mean hop distance
\* over the ordered pairs of distinct nodes of a largest component.
C9_AvgShortestPathOfLargest ==
    MetricsDone =>
      LET m == summary[ctype]
          comps == ComponentSets(P)
          sizes == {Cardinality(c) : c \in comps} \cup {0}
          largest == CHOOSE z \in sizes : \A y \in sizes : y <= z
      IN  /\ m["n_components"] = Num(Cardinality(comps))
          /\ m["largest_component"] = Num(largest)
          /\ (m["avg_shortest_path"] = None) <=> (largest <= 1)
          /\ largest > 1 =>
                \E c \in comps : /\ Cardinality(c) = largest
                                 /\ m["avg_shortest_path"] = MeanDistance(P, c)

\* C9 witness: a graph of two components, of which the larger has two nodes and
\* is not the first one met
C9_Witness ==
    /\ MetricsDone
    /\ Cardinality(ComponentSets(P)) = 2
    /\ Component(P, P.nodes[1]) = {P.nodes[1]}
    /\ summary[ctype]["largest_component"] = Num(2)
    /\ summary[ctype]["avg_shortest_path"] = Num(1)

=============================================================================
